---------------------------- MODULE Spec2Model ----------------------------
(***************************************************************************)
(* Alertmanager alerting provider (alerting/provider/alertmanager).        *)
(*                                                                         *)
(* Go strings are modelled as sequences of tokens, the empty string being  *)
(* the empty sequence, so that len(s) == 0 is Len(s) = 0 and formatted     *)
(* strings (fmt.Sprintf, strings.Join, TrimSuffix, HasSuffix) are computed *)
(* token by token.  Go maps are reference types: a Config holds the        *)
(* address of a map object, and the objects live in the variable heap.     *)
(***************************************************************************)
EXTENDS Integers, Sequences, FiniteSets, TLC

VARIABLES
    heap,       \* address -> map object (map[string]string), the live objects
    provider,   \* the AlertProvider: DefaultConfig and Overrides
    threads,    \* one record per calling goroutine: its position and locals
    unit        \* the frame of a direct call of Merge, Validate or buildAlert

vars == <<heap, provider, threads, unit>>

---------------------------------------------------------------------------
(* Bounds of the model *)

\* longest override list a provider is constructed with
MaxOverrides == 2

\* latest instant time.Now() returns (instant 0 is the zero time.Time)
MaxTime == 2

---------------------------------------------------------------------------
(* Values *)

Nil == 0                         \* nil map, nil *client.Config
ZeroTime == 0                    \* time.Time{}
EmptyStr == <<>>                 \* ""
Str(tok) == <<tok>>
EmptyMap == [k \in {} |-> EmptyStr]

\* time.Duration values, in seconds
DefaultTimeout == 10
DefaultSeverityValue == Str("critical")

\* m[k] = v on a Go map
Put(m, k, v) == [x \in DOMAIN m \cup {k} |-> IF x = k THEN v ELSE m[x]]

\* for k, v := range src { dst[k] = v }, one key at a time
RECURSIVE RangePut(_, _, _)
RangePut(dst, src, keys) ==
    IF keys = {} THEN dst
    ELSE LET k == CHOOSE x \in keys : TRUE
         IN  RangePut(Put(dst, k, src[k]), src, keys \ {k})

\* the least address that holds no object
NewAddr(h) ==
    CHOOSE a \in 1..(Cardinality(DOMAIN h) + 1) :
        /\ a \notin DOMAIN h
        /\ \A b \in 1..(a - 1) : b \in DOMAIN h

\* make(map[string]string)
MakeMap(h) ==
    LET a == NewAddr(h) IN [heap |-> h @@ (a :> EmptyMap), ref |-> a]

\* len(m) of a map reference; len of a nil map is 0
MapLen(h, ref) == IF ref = Nil THEN 0 ELSE Cardinality(DOMAIN h[ref])

\* the key/value contents behind a map reference (a nil map reads as empty)
Contents(h, ref) == IF ref = Nil THEN EmptyMap ELSE h[ref]

ZeroConfig ==
    [URL |-> EmptyStr, Timeout |-> 0, DefaultSeverity |-> EmptyStr,
     ExtraLabels |-> Nil, ExtraAnnotations |-> Nil, ClientConfig |-> Nil]

---------------------------------------------------------------------------
(* Config.Validate *)

ErrNone == [kind |-> "nil", code |-> 0, body |-> EmptyStr, cause |-> EmptyStr]
ErrAlertmanagerURLNotSet ==
    [kind |-> "alertmanager URL not set", code |-> 0, body |-> EmptyStr,
     cause |-> EmptyStr]

ValidateTimeout_KeepZero(cfg) == cfg

\* if cfg.Timeout == 0 { cfg.Timeout = 10 * time.Second }
ValidateTimeout(cfg) ==
    IF cfg.Timeout = 0 THEN [cfg EXCEPT !.Timeout = DefaultTimeout] ELSE cfg

\* if len(cfg.DefaultSeverity) == 0 { cfg.DefaultSeverity = "critical" }
ValidateSeverity(cfg) ==
    IF Len(cfg.DefaultSeverity) = 0
    THEN [cfg EXCEPT !.DefaultSeverity = DefaultSeverityValue]
    ELSE cfg

\* (cfg *Config) Validate(): the receiver after the call, and the error
Validate(cfg) ==
    IF Len(cfg.URL) = 0
    THEN [cfg |-> cfg, err |-> ErrAlertmanagerURLNotSet]
    ELSE [cfg |-> ValidateSeverity(ValidateTimeout(cfg)), err |-> ErrNone]

---------------------------------------------------------------------------
(* Config.Merge *)

MergeMap_Alias(h, dst, src) ==
    IF MapLen(h, src) > 0
    THEN IF dst = Nil
         THEN [heap |-> h, ref |-> src]
         ELSE [heap |-> [h EXCEPT ![dst] = RangePut(h[dst], h[src], DOMAIN h[src])],
               ref |-> dst]
    ELSE [heap |-> h, ref |-> dst]

MergeMap_BaseWins(h, dst, src) ==
    IF MapLen(h, src) > 0
    THEN LET m == IF dst = Nil THEN MakeMap(h) ELSE [heap |-> h, ref |-> dst]
         IN  [heap |-> [m.heap EXCEPT ![m.ref] =
                           RangePut(m.heap[m.ref], m.heap[src],
                                    DOMAIN m.heap[src] \ DOMAIN m.heap[m.ref])],
              ref |-> m.ref]
    ELSE [heap |-> h, ref |-> dst]

\* if len(override.M) > 0 { if cfg.M == nil { cfg.M = make(...) };
\*                          for k, v := range override.M { cfg.M[k] = v } }
\* the heap after the writes and the reference the receiver holds
MergeMap(h, dst, src) ==
    IF MapLen(h, src) > 0
    THEN LET m == IF dst = Nil THEN MakeMap(h) ELSE [heap |-> h, ref |-> dst]
         IN  [heap |-> [m.heap EXCEPT ![m.ref] =
                           RangePut(m.heap[m.ref], m.heap[src], DOMAIN m.heap[src])],
              ref |-> m.ref]
    ELSE [heap |-> h, ref |-> dst]

\* if override.Timeout > 0 { cfg.Timeout = override.Timeout }
MergeTimeout(cfg, override) ==
    IF override.Timeout > 0 THEN [cfg EXCEPT !.Timeout = override.Timeout] ELSE cfg

\* the ClientConfig, URL, Timeout and DefaultSeverity assignments of Merge
MergeScalars(cfg, override) ==
    LET c1 == IF override.ClientConfig # Nil
              THEN [cfg EXCEPT !.ClientConfig = override.ClientConfig] ELSE cfg
        c2 == IF Len(override.URL) > 0 THEN [c1 EXCEPT !.URL = override.URL] ELSE c1
        c3 == MergeTimeout(c2, override)
    IN  IF Len(override.DefaultSeverity) > 0
        THEN [c3 EXCEPT !.DefaultSeverity = override.DefaultSeverity]
        ELSE c3

\* (cfg *Config) Merge(override *Config): the heap and the receiver after it
Merge(h, cfg, override) ==
    LET c == MergeScalars(cfg, override)
        l == MergeMap(h, c.ExtraLabels, override.ExtraLabels)
        a == MergeMap(l.heap, c.ExtraAnnotations, override.ExtraAnnotations)
    IN  [heap |-> a.heap,
         cfg  |-> [c EXCEPT !.ExtraLabels = l.ref, !.ExtraAnnotations = a.ref]]

---------------------------------------------------------------------------
(* AlertProvider.GetConfig *)

DeepCopyMap_Shared(h, ref) == [heap |-> h, ref |-> ref]

\* if cfg.M != nil { m := make(...); for k, v := range cfg.M { m[k] = v }; cfg.M = m }
DeepCopyMap(h, ref) ==
    IF ref # Nil
    THEN LET m == MakeMap(h)
         IN  [heap |-> [m.heap EXCEPT ![m.ref] =
                           RangePut(m.heap[m.ref], h[ref], DOMAIN h[ref])],
              ref |-> m.ref]
    ELSE [heap |-> h, ref |-> Nil]

\* cfg := provider.DefaultConfig, then the deep copies of its two maps
CopyDefaultConfig(h, p) ==
    LET c == p.DefaultConfig
        l == DeepCopyMap(h, c.ExtraLabels)
        a == DeepCopyMap(l.heap, c.ExtraAnnotations)
    IN  [heap |-> a.heap,
         cfg  |-> [c EXCEPT !.ExtraLabels = l.ref, !.ExtraAnnotations = a.ref]]

\* an Override's embedded Config
OverrideConfig(o) ==
    [URL |-> o.URL, Timeout |-> o.Timeout, DefaultSeverity |-> o.DefaultSeverity,
     ExtraLabels |-> o.ExtraLabels, ExtraAnnotations |-> o.ExtraAnnotations,
     ClientConfig |-> o.ClientConfig]

RECURSIVE ApplyGroupOverride_NoBreak(_, _, _, _, _)
ApplyGroupOverride_NoBreak(h, cfg, overrides, group, i) ==
    IF i > Len(overrides) THEN [heap |-> h, cfg |-> cfg]
    ELSE IF group = overrides[i].Group
         THEN LET m == Merge(h, cfg, OverrideConfig(overrides[i]))
              IN  ApplyGroupOverride_NoBreak(m.heap, m.cfg, overrides, group, i + 1)
         ELSE ApplyGroupOverride_NoBreak(h, cfg, overrides, group, i + 1)

\* for _, override := range provider.Overrides {
\*     if group == override.Group { cfg.Merge(&override.Config); break } }
\* from index i on
RECURSIVE ApplyGroupOverride(_, _, _, _, _)
ApplyGroupOverride(h, cfg, overrides, group, i) ==
    IF i > Len(overrides) THEN [heap |-> h, cfg |-> cfg]
    ELSE IF group = overrides[i].Group
         THEN Merge(h, cfg, OverrideConfig(overrides[i]))
         ELSE ApplyGroupOverride(h, cfg, overrides, group, i + 1)

\* A Config written as a literal (a struct literal, a YAML document): the
\* scalar fields as they are and each map field as a set holding no map
\* (nil) or the one map it is given.
AllocMap(h, opt) ==
    IF opt = {} THEN [heap |-> h, ref |-> Nil]
    ELSE LET m == MakeMap(h)
             v == CHOOSE x \in opt : TRUE
         IN  [heap |-> [m.heap EXCEPT ![m.ref] = RangePut(EmptyMap, v, DOMAIN v)],
              ref |-> m.ref]

AllocConfig(h, lit) ==
    LET l == AllocMap(h, lit.ExtraLabels)
        a == AllocMap(l.heap, lit.ExtraAnnotations)
    IN  [heap |-> a.heap,
         cfg  |-> [URL |-> lit.URL, Timeout |-> lit.Timeout,
                   DefaultSeverity |-> lit.DefaultSeverity,
                   ExtraLabels |-> l.ref, ExtraAnnotations |-> a.ref,
                   ClientConfig |-> lit.ClientConfig]]

ErrYAML == [kind |-> "yaml", code |-> 0, body |-> EmptyStr, cause |-> EmptyStr]

\* overrideConfig := Config{}; yaml.Unmarshal(alert.ProviderOverrideAsBytes(),
\* &overrideConfig): a blob either fails to parse or yields the Config it spells
ParseOverride(h, blob) ==
    IF blob.ok
    THEN LET c == AllocConfig(h, blob.cfg)
         IN  [heap |-> c.heap, cfg |-> c.cfg, err |-> ErrNone]
    ELSE [heap |-> h, cfg |-> ZeroConfig, err |-> ErrYAML]

---------------------------------------------------------------------------
(* AlertProvider.buildAlert *)

\* strings.Join(elems, sep)
RECURSIVE Join(_, _)
Join(elems, sep) ==
    IF Len(elems) = 0 THEN EmptyStr
    ELSE IF Len(elems) = 1 THEN elems[1]
    ELSE elems[1] \o sep \o Join(Tail(elems), sep)

\* alert.GetDescription(): "" when the alert has no description
GetDescription(alert) == alert.Description

FixedLabels_GroupAlways(cfg, ep) ==
    LET l1 == Put(EmptyMap, "alertname", Str("GatusEndpointDown"))
        l2 == Put(l1, "instance", ep.URL)
        l3 == Put(l2, "job", Str("gatus"))
        l4 == Put(l3, "severity", cfg.DefaultSeverity)
        l5 == Put(l4, "endpoint", ep.Name)
    IN  Put(l5, "group", ep.Group)

\* the core Prometheus labels and the Gatus-specific labels
FixedLabels(cfg, ep) ==
    LET l1 == Put(EmptyMap, "alertname", Str("GatusEndpointDown"))
        l2 == Put(l1, "instance", ep.URL)
        l3 == Put(l2, "job", Str("gatus"))
        l4 == Put(l3, "severity", cfg.DefaultSeverity)
        l5 == Put(l4, "endpoint", ep.Name)
    IN  IF ep.Group # EmptyStr THEN Put(l5, "group", ep.Group) ELSE l5

\* the summary and description annotations of the resolved and firing branches
CoreAnnotations(ep, result, resolved) ==
    IF resolved
    THEN LET a1 == Put(EmptyMap, "summary",
                       Str("Endpoint ") \o ep.Name \o Str(" is now healthy"))
         IN  Put(a1, "description",
                 Str("Endpoint ") \o ep.Name \o Str(" (") \o ep.URL
                 \o Str(") has recovered and is now passing health checks"))
    ELSE LET a1 == Put(EmptyMap, "summary",
                       Str("Endpoint ") \o ep.Name \o Str(" is down"))
             d0 == Str("Endpoint ") \o ep.Name \o Str(" (") \o ep.URL
                   \o Str(") has failed health checks")
             d1 == IF Len(result.Errors) > 0
                   THEN d0 \o Str(". Errors: ") \o Join(result.Errors, Str(", "))
                   ELSE d0
         IN  Put(a1, "description", d1)

EndsAt_Always(resolved, now) == now

\* alertPayload.EndsAt = now in the resolved branch only
EndsAt(resolved, now) == IF resolved THEN now ELSE ZeroTime

Annotations_ExtraFirst(h, cfg, ep, alert, result, resolved) ==
    LET x  == Contents(h, cfg.ExtraAnnotations)
        c  == CoreAnnotations(ep, result, resolved)
        a0 == RangePut(EmptyMap, x, DOMAIN x)
        a1 == RangePut(a0, c, DOMAIN c)
    IN  IF GetDescription(alert) # EmptyStr
        THEN Put(a1, "alert_description", GetDescription(alert))
        ELSE a1

\* the annotations: core, then alert_description, then cfg.ExtraAnnotations
Annotations(h, cfg, ep, alert, result, resolved) ==
    LET a1 == CoreAnnotations(ep, result, resolved)
        a2 == IF GetDescription(alert) # EmptyStr
              THEN Put(a1, "alert_description", GetDescription(alert))
              ELSE a1
        x  == Contents(h, cfg.ExtraAnnotations)
    IN  RangePut(a2, x, DOMAIN x)

\* the labels: fixed, then cfg.ExtraLabels
Labels(h, cfg, ep) ==
    LET x == Contents(h, cfg.ExtraLabels)
    IN  RangePut(FixedLabels(cfg, ep), x, DOMAIN x)

\* buildAlert(cfg, ep, alert, result, resolved) at instant now
buildAlert(h, cfg, ep, alert, result, resolved, now) ==
    [Labels      |-> Labels(h, cfg, ep),
     Annotations |-> Annotations(h, cfg, ep, alert, result, resolved),
     StartsAt    |-> now,
     EndsAt      |-> EndsAt(resolved, now)]

ZeroPayload ==
    [Labels |-> EmptyMap, Annotations |-> EmptyMap, StartsAt |-> ZeroTime,
     EndsAt |-> ZeroTime]

---------------------------------------------------------------------------
(* AlertProvider.sendToAlertmanager *)

APIPath == "/api/v2/alerts"

\* strings.TrimSuffix(s, "/")
TrimSlash(s) ==
    IF Len(s) > 0 /\ s[Len(s)] = "/" THEN SubSeq(s, 1, Len(s) - 1) ELSE s

\* url := strings.TrimSuffix(cfg.URL, "/"), with "/api/v2/alerts" appended
\* unless url already ends with it
RequestURL(cfgURL) ==
    LET url == TrimSlash(cfgURL)
    IN  IF Len(url) > 0 /\ url[Len(url)] = APIPath THEN url ELSE url \o Str(APIPath)

\* http.NewRequest fails on a URL that url.Parse rejects
UnparsableURL(url) == Len(url) > 0 /\ url[1] = ":bad"

ErrRequest == [kind |-> "failed to create request", code |-> 0,
               body |-> EmptyStr, cause |-> Str("missing protocol scheme")]

ErrTransport(cause) ==
    [kind |-> "failed to send request to Alertmanager", code |-> 0,
     body |-> EmptyStr, cause |-> cause]

ErrStatus(code, body) ==
    [kind |-> "Alertmanager returned status", code |-> code, body |-> body,
     cause |-> EmptyStr]

RejectedStatus_Inclusive(code) == code < 200 \/ code > 300

\* resp.StatusCode < 200 || resp.StatusCode >= 300
RejectedStatus(code) == code < 200 \/ code >= 300

\* the POST request built from cfg and the marshalled alerts
NewRequest(cfg, alerts) ==
    [method |-> "POST", url |-> RequestURL(cfg.URL),
     contentType |-> "application/json", body |-> alerts,
     client |-> cfg.ClientConfig,
     timeout |-> IF cfg.Timeout > 0 THEN cfg.Timeout ELSE 0]

ZeroRequest ==
    [method |-> "", url |-> EmptyStr, contentType |-> "", body |-> <<>>,
     client |-> Nil, timeout |-> 0]

\* no response; in a response, body is what io.ReadAll has read of resp.Body
ZeroResponse ==
    [status |-> 0, body |-> EmptyStr, drained |-> FALSE, closed |-> FALSE]

---------------------------------------------------------------------------
(* Goroutines calling the provider *)

ZeroEndpoint == [Name |-> EmptyStr, URL |-> EmptyStr, Group |-> EmptyStr]
ZeroResult == [Errors |-> <<>>]
NoBlob == [present |-> FALSE, ok |-> TRUE,
           cfg |-> [URL |-> EmptyStr, Timeout |-> 0, DefaultSeverity |-> EmptyStr,
                    ExtraLabels |-> {}, ExtraAnnotations |-> {},
                    ClientConfig |-> Nil]]
ZeroAlert == [ProviderOverride |-> NoBlob, Description |-> EmptyStr]

IdleThread ==
    [pc |-> "idle", op |-> "none", group |-> EmptyStr, ep |-> ZeroEndpoint,
     alert |-> ZeroAlert, result |-> ZeroResult, resolved |-> FALSE,
     cfg |-> ZeroConfig, hasCfg |-> FALSE, override |-> ZeroConfig,
     payload |-> ZeroPayload, req |-> ZeroRequest, resp |-> ZeroResponse,
     attempts |-> 0, err |-> ErrNone]

\* the map objects a Config references
Refs(cfg) == {cfg.ExtraLabels, cfg.ExtraAnnotations} \ {Nil}

\* the map objects reachable from the provider and from the goroutines' frames
Live(p, ths) ==
    Refs(p.DefaultConfig)
    \cup UNION {Refs(OverrideConfig(p.Overrides[i])) : i \in DOMAIN p.Overrides}
    \cup UNION {Refs(ths[t].cfg) \cup Refs(ths[t].override) : t \in DOMAIN ths}

\* the heap without the objects nothing references any more
Collect(h, live) == [a \in DOMAIN h \cap live |-> h[a]]

AfterGetConfig_IgnoreError(op, err) == IF op = "Send" THEN "build" ELSE "returned"

\* Send: cfg, err := provider.GetConfig(...); if err != nil { return err };
\* GetConfig and ValidateOverrides return in either case
AfterGetConfig(op, err) ==
    IF op = "Send" /\ err = ErrNone THEN "build" ELSE "returned"

\* provider.GetConfig(group, alert) is entered
CallGetConfig(t, group, alert) ==
    /\ threads[t].pc = "idle"
    /\ threads' = [threads EXCEPT ![t] =
           [IdleThread EXCEPT !.pc = "copy", !.op = "GetConfig",
                              !.group = group, !.alert = alert]]
    /\ UNCHANGED <<heap, provider, unit>>

\* provider.ValidateOverrides(group, alert) is entered
CallValidateOverrides(t, group, alert) ==
    /\ threads[t].pc = "idle"
    /\ threads' = [threads EXCEPT ![t] =
           [IdleThread EXCEPT !.pc = "copy", !.op = "ValidateOverrides",
                              !.group = group, !.alert = alert]]
    /\ UNCHANGED <<heap, provider, unit>>

\* provider.Send(ep, alert, result, resolved) is entered
CallSend(t, ep, alert, result, resolved) ==
    /\ threads[t].pc = "idle"
    /\ threads' = [threads EXCEPT ![t] =
           [IdleThread EXCEPT !.pc = "copy", !.op = "Send", !.group = ep.Group,
                              !.ep = ep, !.alert = alert, !.result = result,
                              !.resolved = resolved]]
    /\ UNCHANGED <<heap, provider, unit>>

\* GetConfig: cfg := provider.DefaultConfig and the deep copies
CopyDefault(t) ==
    /\ threads[t].pc = "copy"
    /\ LET c == CopyDefaultConfig(heap, provider)
       IN  /\ heap' = c.heap
           /\ threads' = [threads EXCEPT ![t].cfg = c.cfg, ![t].pc = "group"]
    /\ UNCHANGED <<provider, unit>>

\* GetConfig: the group overrides
GroupOverride(t) ==
    /\ threads[t].pc = "group"
    /\ LET m == ApplyGroupOverride(heap, threads[t].cfg, provider.Overrides,
                                   threads[t].group, 1)
       IN  /\ heap' = m.heap
           /\ threads' = [threads EXCEPT ![t].cfg = m.cfg, ![t].pc = "alert"]
    /\ UNCHANGED <<provider, unit>>

\* GetConfig: the alert override; a blob that fails to parse returns (nil, err)
AlertOverride(t) ==
    /\ threads[t].pc = "alert"
    /\ IF threads[t].alert.ProviderOverride.present
       THEN LET o == ParseOverride(heap, threads[t].alert.ProviderOverride)
                m == Merge(o.heap, threads[t].cfg, o.cfg)
            IN  IF o.err # ErrNone
                THEN /\ heap' = heap
                     /\ threads' = [threads EXCEPT
                            ![t].err = o.err,
                            ![t].hasCfg = FALSE,
                            ![t].pc = AfterGetConfig(threads[t].op, o.err)]
                ELSE /\ heap' = m.heap
                     /\ threads' = [threads EXCEPT ![t].cfg = m.cfg,
                                                   ![t].override = o.cfg,
                                                   ![t].pc = "validate"]
       ELSE /\ heap' = heap
            /\ threads' = [threads EXCEPT ![t].pc = "validate"]
    /\ UNCHANGED <<provider, unit>>

\* GetConfig: err := cfg.Validate(); return &cfg, err.  ValidateOverrides
\* returns the error alone, Send returns it or goes on to build the alert.
ValidateEffective(t) ==
    /\ threads[t].pc = "validate"
    /\ LET v == Validate(threads[t].cfg)
       IN  threads' = [threads EXCEPT
               ![t].cfg = v.cfg,
               ![t].err = v.err,
               ![t].hasCfg = (threads[t].op = "GetConfig"),
               ![t].pc = AfterGetConfig(threads[t].op, v.err)]
    /\ UNCHANGED <<heap, provider, unit>>

\* Send: alertPayload := provider.buildAlert(cfg, ep, alert, result, resolved)
BuildAlert(t) ==
    /\ threads[t].pc = "build"
    /\ \E now \in 1..MaxTime :
         threads' = [threads EXCEPT
             ![t].payload = buildAlert(heap, threads[t].cfg, threads[t].ep,
                                       threads[t].alert, threads[t].result,
                                       threads[t].resolved, now),
             ![t].pc = "post"]
    /\ UNCHANGED <<heap, provider, unit>>

\* sendToAlertmanager up to httpClient.Do(req): the request is built and
\* sent, or http.NewRequest fails and the error is returned
PostAlerts(t) ==
    /\ threads[t].pc = "post"
    /\ LET req == NewRequest(threads[t].cfg, <<threads[t].payload>>)
       IN  IF UnparsableURL(req.url)
           THEN threads' = [threads EXCEPT ![t].err = ErrRequest,
                                           ![t].pc = "returned"]
           ELSE threads' = [threads EXCEPT ![t].req = req,
                                           ![t].attempts = @ + 1,
                                           ![t].pc = "await"]
    /\ UNCHANGED <<heap, provider, unit>>

\* httpClient.Do returns an error (connection refused, timeout, DNS)
TransportFailure(t, cause) ==
    /\ threads[t].pc = "await"
    /\ threads' = [threads EXCEPT ![t].err = ErrTransport(cause),
                                  ![t].pc = "returned"]
    /\ UNCHANGED <<heap, provider, unit>>

\* httpClient.Do returns a response: resp.Body.Close() is deferred and the
\* status is checked.  A status in [200,300) returns nil, the deferred Close
\* running on the way out with the body unread; any other status goes on to
\* io.ReadAll(resp.Body), which waits for the body.
Response(t, status) ==
    /\ threads[t].pc = "await"
    /\ threads' = [threads EXCEPT
           ![t].resp = [status |-> status, body |-> EmptyStr,
                        drained |-> FALSE,
                        closed |-> ~RejectedStatus(status)],
           ![t].pc = IF RejectedStatus(status) THEN "read" ELSE "returned"]
    /\ UNCHANGED <<heap, provider, unit>>

\* ReadAll with resp.Body.Close() called before the final return instead of
\* deferred: the return of the rejected branch skips it
ReadAll_CloseSkipped(t, body) ==
    /\ threads[t].pc = "read"
    /\ threads' = [threads EXCEPT
           ![t].resp.body = body,
           ![t].resp.drained = TRUE,
           ![t].err = ErrStatus(threads[t].resp.status, body),
           ![t].pc = "returned"]
    /\ UNCHANGED <<heap, provider, unit>>

\* body, _ := io.ReadAll(resp.Body) ends with what it read (its error is
\* dropped), the status error is built from it, the deferred
\* resp.Body.Close() runs and the call returns
ReadAll(t, body) ==
    /\ threads[t].pc = "read"
    /\ threads' = [threads EXCEPT
           ![t].resp.body = body,
           ![t].resp.drained = TRUE,
           ![t].resp.closed = TRUE,
           ![t].err = ErrStatus(threads[t].resp.status, body),
           ![t].pc = "returned"]
    /\ UNCHANGED <<heap, provider, unit>>

\* the caller takes the result; the frame's objects become garbage
Return(t) ==
    /\ threads[t].pc = "returned"
    /\ threads' = [threads EXCEPT ![t] = IdleThread]
    /\ heap' = Collect(heap, Live(provider, threads'))
    /\ UNCHANGED <<provider, unit>>

\* (provider *AlertProvider) Validate(): provider.DefaultConfig.Validate()
ProviderValidate(t) ==
    /\ \A u \in DOMAIN threads : threads[u].pc = "idle"
    /\ LET v == Validate(provider.DefaultConfig)
       IN  /\ provider' = [provider EXCEPT !.DefaultConfig = v.cfg]
           /\ threads' = [threads EXCEPT ![t].op = "Validate", ![t].err = v.err,
                                         ![t].pc = "returned"]
    /\ UNCHANGED <<heap, unit>>

---------------------------------------------------------------------------
(* Providers and inputs *)

AM == Str("http://am:9093")
AMGroup == <<"http://am-group:9093", "/">>
AMOther == <<"http://am-other:9093", APIPath>>
AMAlert == Str("http://am-alert:9093")
BadURL == Str(":bad")

GroupG == Str("g")
GroupH == Str("h")
Groups == {EmptyStr, GroupG, GroupH}

Map1(k, v) == Put(EmptyMap, k, Str(v))
Map2(k1, v1, k2, v2) == Put(Map1(k1, v1), k2, Str(v2))

DefaultLits ==
    {[URL |-> u, Timeout |-> s.t, DefaultSeverity |-> s.s,
      ExtraLabels |-> m.l, ExtraAnnotations |-> m.a, ClientConfig |-> m.c] :
        u \in {EmptyStr, AM},
        s \in {[t |-> 0, s |-> EmptyStr], [t |-> 30, s |-> Str("warning")],
               [t |-> -1, s |-> Str("warning")]},
        m \in {[l |-> {}, a |-> {}, c |-> Nil],
               [l |-> {EmptyMap}, a |-> {EmptyMap}, c |-> 1],
               [l |-> {Map1("team", "platform")},
                a |-> {Map1("runbook", "https://wiki/default")}, c |-> 1]}}

OverrideLits ==
    {[Group |-> GroupG, URL |-> AMGroup, Timeout |-> 5,
      DefaultSeverity |-> Str("page"),
      ExtraLabels |-> {Map2("team", "payments", "env", "prod")},
      ExtraAnnotations |-> {}, ClientConfig |-> Nil],
     [Group |-> GroupG, URL |-> EmptyStr, Timeout |-> -5,
      DefaultSeverity |-> Str("info"),
      ExtraLabels |-> {EmptyMap},
      ExtraAnnotations |-> {Map1("runbook", "https://wiki/group")},
      ClientConfig |-> 2],
     [Group |-> GroupH, URL |-> AMOther, Timeout |-> 0,
      DefaultSeverity |-> EmptyStr,
      ExtraLabels |-> {Map1("severity", "ticket")},
      ExtraAnnotations |-> {Map1("summary", "see dashboard")},
      ClientConfig |-> Nil]}

Blobs ==
    {NoBlob,
     [NoBlob EXCEPT !.present = TRUE, !.ok = FALSE],
     [present |-> TRUE, ok |-> TRUE,
      cfg |-> [URL |-> AMAlert, Timeout |-> 7, DefaultSeverity |-> Str("low"),
               ExtraLabels |-> {Map1("team", "oncall")},
               ExtraAnnotations |-> {}, ClientConfig |-> 3]],
     [present |-> TRUE, ok |-> TRUE,
      cfg |-> [URL |-> EmptyStr, Timeout |-> -1, DefaultSeverity |-> EmptyStr,
               ExtraLabels |-> {},
               ExtraAnnotations |-> {Map1("runbook", "https://wiki/alert")},
               ClientConfig |-> Nil]],
     [present |-> TRUE, ok |-> TRUE,
      cfg |-> [URL |-> BadURL, Timeout |-> 0, DefaultSeverity |-> EmptyStr,
               ExtraLabels |-> {}, ExtraAnnotations |-> {},
               ClientConfig |-> Nil]]}

Alerts == {[ProviderOverride |-> b, Description |-> EmptyStr] : b \in Blobs}

Endpoints ==
    {[Name |-> Str("API"), URL |-> Str("https://api/health"), Group |-> g] :
        g \in Groups}

Results == {[Errors |-> <<>>]}

Statuses == {199, 200, 299, 300, 503}
Bodies == {EmptyStr, Str("service unavailable")}
Causes == {Str("connection refused")}

\* an Override from its literal
AllocOverride(h, lit) ==
    LET c == AllocConfig(h, lit)
    IN  [heap |-> c.heap,
         override |-> [Group |-> lit.Group, URL |-> c.cfg.URL,
                       Timeout |-> c.cfg.Timeout,
                       DefaultSeverity |-> c.cfg.DefaultSeverity,
                       ExtraLabels |-> c.cfg.ExtraLabels,
                       ExtraAnnotations |-> c.cfg.ExtraAnnotations,
                       ClientConfig |-> c.cfg.ClientConfig]]

RECURSIVE AllocOverrides(_, _)
AllocOverrides(h, lits) ==
    IF Len(lits) = 0 THEN [heap |-> h, overrides |-> <<>>]
    ELSE LET o == AllocOverride(h, lits[1])
             r == AllocOverrides(o.heap, Tail(lits))
         IN  [heap |-> r.heap, overrides |-> <<o.override>> \o r.overrides]

\* the provider as configuration loading constructs it
NewProvider(default, overrides) ==
    LET d == AllocConfig(EmptyMap, default)
        o == AllocOverrides(d.heap, overrides)
    IN  [heap |-> o.heap,
         provider |-> [DefaultConfig |-> d.cfg, Overrides |-> o.overrides]]

NoUnit == [op |-> "none"]

---------------------------------------------------------------------------
(* One caller at a time: every public operation, every provider *)

OverrideLists == UNION {[1..n -> OverrideLits] : n \in 0..MaxOverrides}

Callers == {"main"}

Init ==
    \E d \in DefaultLits, o \in OverrideLists :
        LET p == NewProvider(d, o)
        IN  /\ heap = p.heap
            /\ provider = p.provider
            /\ threads = [t \in Callers |-> IdleThread]
            /\ unit = NoUnit

Next ==
    \/ \E t \in Callers, g \in Groups, a \in Alerts : CallGetConfig(t, g, a)
    \/ \E t \in Callers, g \in Groups, a \in Alerts : CallValidateOverrides(t, g, a)
    \/ \E t \in Callers, e \in Endpoints, a \in Alerts, r \in Results,
          b \in BOOLEAN : CallSend(t, e, a, r, b)
    \/ \E t \in Callers : CopyDefault(t)
    \/ \E t \in Callers : GroupOverride(t)
    \/ \E t \in Callers : AlertOverride(t)
    \/ \E t \in Callers : ValidateEffective(t)
    \/ \E t \in Callers : BuildAlert(t)
    \/ \E t \in Callers : PostAlerts(t)
    \/ \E t \in Callers, c \in Causes : TransportFailure(t, c)
    \/ \E t \in Callers, s \in Statuses : Response(t, s)
    \/ \E t \in Callers, b \in Bodies : ReadAll(t, b)
    \/ \E t \in Callers : Return(t)
    \/ \E t \in Callers : ProviderValidate(t)

Spec == Init /\ [][Next]_vars

---------------------------------------------------------------------------
(* Concurrent callers of a constructed provider *)

ConcProviders ==
    {NewProvider(d, o) :
        d \in {x \in DefaultLits : x.URL = AM /\ x.Timeout = 0},
        o \in {ol \in [1..2 -> OverrideLits] :
                  ol[1].Group = GroupG /\ ol[2].Group = GroupH}}

ConcAlerts == {a \in Alerts : /\ a.ProviderOverride.ok
                              /\ a.ProviderOverride.cfg.URL \in {EmptyStr, AMAlert}
                              /\ a.ProviderOverride.cfg.Timeout >= 0}
ConcEndpoints == {e \in Endpoints : e.Group = GroupG}
ConcStatuses == {200, 503}
ConcBodies == {EmptyStr}

Goroutines == {"g1", "g2"}

InitConc ==
    \E p \in ConcProviders :
        /\ heap = p.heap
        /\ provider = p.provider
        /\ threads = [t \in Goroutines |-> IdleThread]
        /\ unit = NoUnit

NextConc ==
    \/ \E t \in Goroutines, a \in ConcAlerts : CallGetConfig(t, GroupG, a)
    \/ \E t \in Goroutines, a \in ConcAlerts : CallValidateOverrides(t, GroupH, a)
    \/ \E t \in Goroutines, e \in ConcEndpoints, a \in ConcAlerts, r \in Results :
           CallSend(t, e, a, r, FALSE)
    \/ \E t \in Goroutines : CopyDefault(t)
    \/ \E t \in Goroutines : GroupOverride(t)
    \/ \E t \in Goroutines : AlertOverride(t)
    \/ \E t \in Goroutines : ValidateEffective(t)
    \/ \E t \in Goroutines : BuildAlert(t)
    \/ \E t \in Goroutines : PostAlerts(t)
    \/ \E t \in Goroutines, c \in Causes : TransportFailure(t, c)
    \/ \E t \in Goroutines, s \in ConcStatuses : Response(t, s)
    \/ \E t \in Goroutines, b \in ConcBodies : ReadAll(t, b)
    \/ \E t \in Goroutines : Return(t)

SpecConc == InitConc /\ [][NextConc]_vars

---------------------------------------------------------------------------
(* Direct calls of Config.Merge and Config.Validate, as the tests make them *)

NoProvider == [DefaultConfig |-> ZeroConfig, Overrides |-> <<>>]
NoThreads == [t \in {} |-> IdleThread]

BaseLits ==
    {[URL |-> u, Timeout |-> t, DefaultSeverity |-> s, ExtraLabels |-> l,
      ExtraAnnotations |-> a, ClientConfig |-> c] :
        u \in {EmptyStr, AM}, t \in {0, 30, -1}, s \in {EmptyStr, Str("critical")},
        l \in {{}, {EmptyMap}, {Map1("team", "platform")},
               {Map2("team", "platform", "env", "dev")}},
        a \in {{}, {Map1("runbook", "https://wiki/default")}},
        c \in {Nil, 1}}

FragmentLits ==
    {[URL |-> u, Timeout |-> t, DefaultSeverity |-> s, ExtraLabels |-> l,
      ExtraAnnotations |-> a, ClientConfig |-> c] :
        u \in {EmptyStr, AMAlert}, t \in {0, 7, -5}, s \in {EmptyStr, Str("warning")},
        l \in {{}, {EmptyMap}, {Map2("team", "payments", "region", "eu")}},
        a \in {{}, {Map1("runbook", "https://wiki.example.com")}},
        c \in {Nil, 2}}

\* base and override are built from two literals, or override := base (one
\* struct copied, the copies sharing its maps); sibling := base in both cases
InitConfig ==
    /\ provider = NoProvider
    /\ threads = NoThreads
    /\ \E b \in BaseLits, o \in FragmentLits, copied \in BOOLEAN :
         LET bc == AllocConfig(EmptyMap, b)
             oc == AllocConfig(bc.heap, o)
         IN  /\ heap = IF copied THEN bc.heap ELSE oc.heap
             /\ unit = [op |-> "none", pc |-> "ready",
                        in |-> [base |-> b, override |-> IF copied THEN b ELSE o,
                                copied |-> copied],
                        base |-> bc.cfg,
                        override |-> IF copied THEN bc.cfg ELSE oc.cfg,
                        sibling |-> bc.cfg,
                        err |-> ErrNone]

\* base.Merge(&override)
CallMerge ==
    /\ unit.pc = "ready"
    /\ LET m == Merge(heap, unit.base, unit.override)
       IN  /\ heap' = m.heap
           /\ unit' = [unit EXCEPT !.op = "Merge", !.pc = "done", !.base = m.cfg]
    /\ UNCHANGED <<provider, threads>>

\* err := base.Validate()
CallValidate ==
    /\ unit.pc = "ready"
    /\ LET v == Validate(unit.base)
       IN  unit' = [unit EXCEPT !.op = "Validate", !.pc = "done",
                                !.base = v.cfg, !.err = v.err]
    /\ UNCHANGED <<heap, provider, threads>>

NextConfig == CallMerge \/ CallValidate

SpecConfig == InitConfig /\ [][NextConfig]_vars

---------------------------------------------------------------------------
(* Direct calls of buildAlert, as the tests make them *)

BuildConfigLits ==
    {[URL |-> AM, Timeout |-> 0, DefaultSeverity |-> s, ExtraLabels |-> l,
      ExtraAnnotations |-> a, ClientConfig |-> Nil] :
        s \in {EmptyStr, Str("warning")},
        l \in {{}, {EmptyMap}, {Map1("environment", "test")},
               {Map2("severity", "page", "alertname", "Custom")},
               {Map2("group", "ops", "team", "platform")}},
        a \in {{}, {EmptyMap}, {Map1("runbook", "https://wiki.example.com/runbook")},
               {Map1("summary", "see dashboard")},
               {Map2("description", "custom", "alert_description", "custom")}}}

BuildEndpoints ==
    {[Name |-> Str("Test API"), URL |-> Str("https://api.example.com/health"),
      Group |-> g] : g \in {EmptyStr, Str("production")}}

BuildAlerts ==
    {[ProviderOverride |-> NoBlob, Description |-> d] :
        d \in {EmptyStr, Str("API health check failed")}}

BuildResults ==
    {[Errors |-> e] :
        e \in {<<>>, <<Str("connection timeout")>>,
               <<Str("connection timeout"), Str("DNS resolution failed")>>}}

InitBuild ==
    /\ provider = NoProvider
    /\ threads = NoThreads
    /\ \E c \in BuildConfigLits, e \in BuildEndpoints, a \in BuildAlerts,
          r \in BuildResults, b \in BOOLEAN :
         LET cc == AllocConfig(EmptyMap, c)
         IN  /\ heap = cc.heap
             /\ unit = [op |-> "none", pc |-> "ready", cfg |-> cc.cfg, ep |-> e,
                        alert |-> a, result |-> r, resolved |-> b,
                        payload |-> ZeroPayload]

\* provider.buildAlert(&cfg, ep, alert, result, resolved)
CallBuildAlert ==
    /\ unit.pc = "ready"
    /\ \E now \in 1..MaxTime :
         unit' = [unit EXCEPT
             !.op = "buildAlert", !.pc = "done",
             !.payload = buildAlert(heap, unit.cfg, unit.ep, unit.alert,
                                    unit.result, unit.resolved, now)]
    /\ UNCHANGED <<heap, provider, threads>>

NextBuild == CallBuildAlert

SpecBuild == InitBuild /\ [][NextBuild]_vars

---------------------------------------------------------------------------
(* What the layering is meant to produce, stated from the inputs *)

\* the first override, in declaration order, whose Group is the group; 0 if none
FirstMatch(overrides, group) ==
    IF \E i \in DOMAIN overrides : overrides[i].Group = group
    THEN CHOOSE i \in DOMAIN overrides :
             /\ overrides[i].Group = group
             /\ \A j \in 1..(i - 1) : overrides[j].Group # group
    ELSE 0

\* alert-level value if set, else first matching group override's if set,
\* else the default's
Pick(alertSet, alertVal, groupSet, groupVal, defaultVal) ==
    IF alertSet THEN alertVal ELSE IF groupSet THEN groupVal ELSE defaultVal

\* the layered URL of the call goroutine t is in
LayeredURL(t) ==
    LET b == threads[t].alert.ProviderOverride
        i == FirstMatch(provider.Overrides, threads[t].group)
    IN  Pick(b.present /\ b.cfg.URL # EmptyStr, b.cfg.URL,
             i # 0 /\ provider.Overrides[i].URL # EmptyStr,
             provider.Overrides[i].URL, provider.DefaultConfig.URL)

LayeredSeverity(t) ==
    LET b == threads[t].alert.ProviderOverride
        i == FirstMatch(provider.Overrides, threads[t].group)
    IN  Pick(b.present /\ b.cfg.DefaultSeverity # EmptyStr, b.cfg.DefaultSeverity,
             i # 0 /\ provider.Overrides[i].DefaultSeverity # EmptyStr,
             provider.Overrides[i].DefaultSeverity,
             provider.DefaultConfig.DefaultSeverity)

\* the layered Timeout, an override's Timeout counting as set when it is not 0
LayeredTimeoutNonZero(t) ==
    LET b == threads[t].alert.ProviderOverride
        i == FirstMatch(provider.Overrides, threads[t].group)
    IN  Pick(b.present /\ b.cfg.Timeout # 0, b.cfg.Timeout,
             i # 0 /\ provider.Overrides[i].Timeout # 0,
             provider.Overrides[i].Timeout, provider.DefaultConfig.Timeout)

\* the layered Timeout, an override's Timeout counting as set when it is positive
LayeredTimeoutPositive(t) ==
    LET b == threads[t].alert.ProviderOverride
        i == FirstMatch(provider.Overrides, threads[t].group)
    IN  Pick(b.present /\ b.cfg.Timeout > 0, b.cfg.Timeout,
             i # 0 /\ provider.Overrides[i].Timeout > 0,
             provider.Overrides[i].Timeout, provider.DefaultConfig.Timeout)

\* a Config with its map references replaced by the maps' contents
Deref(h, cfg) ==
    [URL |-> cfg.URL, Timeout |-> cfg.Timeout,
     DefaultSeverity |-> cfg.DefaultSeverity, ClientConfig |-> cfg.ClientConfig,
     ExtraLabels |-> cfg.ExtraLabels, ExtraAnnotations |-> cfg.ExtraAnnotations,
     labels |-> Contents(h, cfg.ExtraLabels),
     annotations |-> Contents(h, cfg.ExtraAnnotations)]

\* everything the provider stores: fields, map references and map contents
Stored(h, p) ==
    [DefaultConfig |-> Deref(h, p.DefaultConfig),
     Overrides |-> [i \in DOMAIN p.Overrides |->
                       [Group |-> p.Overrides[i].Group,
                        Config |-> Deref(h, OverrideConfig(p.Overrides[i]))]]]

---------------------------------------------------------------------------
(* C1 *)

\* C1: no step of a GetConfig, ValidateOverrides or Send call, in any
\* interleaving of two goroutines, changes what the provider stores: the
\* fields of DefaultConfig, the contents of its ExtraLabels and
\* ExtraAnnotations, and every field and map of every override.
C1_StoredStateUnchanged ==
    [][Stored(heap', provider') = Stored(heap, provider)]_vars

\* one goroutine has returned from a Send whose group override wrote labels
\* into its effective config while the other is in the middle of a call, for
\* a provider whose DefaultConfig has a non-empty ExtraLabels
C1_Witness ==
    \E t, u \in DOMAIN threads :
        /\ t # u
        /\ threads[t].pc = "returned" /\ threads[t].op = "Send"
        /\ threads[u].pc \in {"group", "alert", "validate"}
        /\ MapLen(heap, provider.DefaultConfig.ExtraLabels) > 0
        /\ Contents(heap, threads[t].cfg.ExtraLabels)
               # Contents(heap, provider.DefaultConfig.ExtraLabels)

---------------------------------------------------------------------------
(* C2 *)

\* the layering of goroutine t's call is complete and not yet validated
Layered(t) == threads[t].pc = "validate"

\* C2 as stated: once the layers are applied, each of URL, Timeout and
\* DefaultSeverity is the alert blob's value if the blob sets it, else the
\* first matching group override's value if that override sets it, else the
\* DefaultConfig value, a Timeout being set when it is not zero.
C2_LayeringAsStated ==
    \A t \in DOMAIN threads :
        Layered(t) =>
            /\ threads[t].cfg.URL = LayeredURL(t)
            /\ threads[t].cfg.DefaultSeverity = LayeredSeverity(t)
            /\ threads[t].cfg.Timeout = LayeredTimeoutNonZero(t)

\* C2, amended: the same layering, an override's Timeout counting as set only
\* when it is positive (a negative Timeout in a group override or in the
\* alert blob is ignored); overrides after the first matching one are
\* ignored and a group that matches no override yields the default.
C2_Layering ==
    \A t \in DOMAIN threads :
        Layered(t) =>
            /\ threads[t].cfg.URL = LayeredURL(t)
            /\ threads[t].cfg.DefaultSeverity = LayeredSeverity(t)
            /\ threads[t].cfg.Timeout = LayeredTimeoutPositive(t)

\* two overrides match the group and set different severities, the alert
\* blob sets the URL and not the severity: the first override's severity and
\* the blob's URL are the effective ones
C2_Witness ==
    \E t \in DOMAIN threads :
        /\ Layered(t)
        /\ Len(provider.Overrides) >= 2
        /\ provider.Overrides[1].Group = threads[t].group
        /\ provider.Overrides[2].Group = threads[t].group
        /\ provider.Overrides[1].DefaultSeverity # EmptyStr
        /\ provider.Overrides[2].DefaultSeverity # EmptyStr
        /\ provider.Overrides[1].DefaultSeverity
               # provider.Overrides[2].DefaultSeverity
        /\ threads[t].alert.ProviderOverride.present
        /\ threads[t].alert.ProviderOverride.cfg.URL # EmptyStr
        /\ threads[t].alert.ProviderOverride.cfg.DefaultSeverity = EmptyStr
        /\ provider.Overrides[1].URL # EmptyStr
        /\ threads[t].cfg.DefaultSeverity = provider.Overrides[1].DefaultSeverity
        /\ threads[t].cfg.URL = threads[t].alert.ProviderOverride.cfg.URL

---------------------------------------------------------------------------
(* C3 *)

\* what Validate is to do to a config: before, after, and the error returned
ValidateContract(before, after, err) ==
    /\ (err = ErrAlertmanagerURLNotSet) <=> (before.URL = EmptyStr)
    /\ (err = ErrNone) <=> (before.URL # EmptyStr)
    /\ err = ErrNone =>
           /\ after.URL # EmptyStr
           /\ after.Timeout # 0
           /\ after.DefaultSeverity # EmptyStr
           /\ after.URL = before.URL
           /\ after.Timeout = IF before.Timeout = 0 THEN 10 ELSE before.Timeout
           /\ after.DefaultSeverity = IF before.DefaultSeverity = EmptyStr
                                      THEN Str("critical")
                                      ELSE before.DefaultSeverity
           /\ after.ExtraLabels = before.ExtraLabels
           /\ after.ExtraAnnotations = before.ExtraAnnotations
           /\ after.ClientConfig = before.ClientConfig

\* C3: every Validate step, GetConfig's on the layered config and the
\* provider's on its DefaultConfig, fails with the URL-not-set error
\* exactly when the URL is empty and succeeds otherwise; on success the URL
\* is non-empty, Timeout is 10s if it was unset and DefaultSeverity is
\* "critical" if it was unset, and fields that were set keep their values.
C3_Validate ==
    [][\A t \in DOMAIN threads :
          /\ (threads[t].pc = "validate" /\ threads'[t].pc # "validate") =>
                 ValidateContract(threads[t].cfg, threads'[t].cfg, threads'[t].err)
          /\ (threads[t].pc = "idle" /\ threads'[t].op = "Validate") =>
                 ValidateContract(provider.DefaultConfig, provider'.DefaultConfig,
                                  threads'[t].err)]_vars

\* GetConfig has returned a config whose Timeout and DefaultSeverity were
\* left unset by every layer and now hold the defaults
C3_Witness ==
    \E t \in DOMAIN threads :
        /\ threads[t].pc = "returned" /\ threads[t].op = "GetConfig"
        /\ threads[t].hasCfg /\ threads[t].err = ErrNone
        /\ LayeredTimeoutPositive(t) = 0 /\ LayeredSeverity(t) = EmptyStr
        /\ threads[t].cfg.Timeout = 10
        /\ threads[t].cfg.DefaultSeverity = Str("critical")
        /\ threads[t].cfg.URL # EmptyStr

---------------------------------------------------------------------------
(* C5 *)

\* the call of goroutine t resolves its effective config without error
ResolvesConfig(t) ==
    /\ threads[t].alert.ProviderOverride.present => threads[t].alert.ProviderOverride.ok
    /\ LayeredURL(t) # EmptyStr

\* the HTTP exchange of goroutine t's call yielded a response
GotResponse(t) == threads[t].resp # ZeroResponse

\* C5: a returned Send has no error exactly when the config resolved, the
\* exchange yielded a response and its status is in [200,300); a response
\* with any other status returns an error carrying that status and the
\* response body; a transport failure returns an error wrapping its cause.
C5_SendOutcome ==
    \A t \in DOMAIN threads :
        (threads[t].pc = "returned" /\ threads[t].op = "Send") =>
            /\ (threads[t].err = ErrNone) <=>
                   /\ ResolvesConfig(t)
                   /\ GotResponse(t)
                   /\ threads[t].resp.status >= 200
                   /\ threads[t].resp.status < 300
            /\ (GotResponse(t) /\ ~(threads[t].resp.status \in 200..299)) =>
                   /\ threads[t].err.code = threads[t].resp.status
                   /\ threads[t].err.body = threads[t].resp.body
                   /\ threads[t].err.kind = "Alertmanager returned status"
            /\ (threads[t].attempts = 1 /\ ~GotResponse(t)) =>
                   /\ threads[t].err.kind = "failed to send request to Alertmanager"
                   /\ threads[t].err.cause \in Causes

\* a Send whose request was answered 503 has returned the error with the
\* status and the body
C5_Witness ==
    \E t \in DOMAIN threads :
        /\ threads[t].pc = "returned" /\ threads[t].op = "Send"
        /\ threads[t].resp.status = 503
        /\ threads[t].resp.body = Str("service unavailable")
        /\ threads[t].err = ErrStatus(503, Str("service unavailable"))

---------------------------------------------------------------------------
(* C6 *)

\* C6: a Send attempts at most one POST; when the config does not resolve
\* (URL empty after all layers, or the alert blob does not parse) it returns
\* that error having attempted none; and an error, once there is one, is the
\* return value of the call: the call has returned and does nothing more.
C6_OneAttempt ==
    \A t \in DOMAIN threads :
        /\ threads[t].attempts <= 1
        /\ (threads[t].pc = "returned" /\ threads[t].op = "Send"
               /\ ~ResolvesConfig(t)) =>
               /\ threads[t].attempts = 0
               /\ threads[t].err \in {ErrAlertmanagerURLNotSet, ErrYAML}
        /\ threads[t].err # ErrNone => threads[t].pc = "returned"
        /\ (threads[t].op = "Send" /\ threads[t].pc \in {"build", "post", "await"})
               => ResolvesConfig(t)

\* a Send whose alert blob does not parse has returned the parse error
\* without a request
C6_Witness ==
    \E t \in DOMAIN threads :
        /\ threads[t].pc = "returned" /\ threads[t].op = "Send"
        /\ threads[t].alert.ProviderOverride.present
        /\ ~threads[t].alert.ProviderOverride.ok
        /\ threads[t].err = ErrYAML
        /\ threads[t].attempts = 0
        /\ threads[t].req = ZeroRequest

---------------------------------------------------------------------------
(* C4 *)

\* the key/value pairs a literal's map field spells (none for a nil map)
LitMap(opt) == IF opt = {} THEN EmptyMap ELSE CHOOSE m \in opt : TRUE

\* m is the key-union of b and o: o's value on o's keys, b's on b's other keys
IsUnion(m, b, o) ==
    /\ DOMAIN m = DOMAIN b \cup DOMAIN o
    /\ \A k \in DOMAIN o : m[k] = o[k]
    /\ \A k \in DOMAIN b \ DOMAIN o : m[k] = b[k]

MergeDone == unit.op = "Merge" /\ unit.pc = "done"

\* C4: after B.Merge(O), B.URL and B.DefaultSeverity are O's where O's are
\* non-empty and unchanged otherwise; B.ExtraLabels and B.ExtraAnnotations
\* are the key-union of B's map before and O's map, O's values winning; O's
\* fields and maps are as they were.
C4_Merge ==
    MergeDone =>
        /\ unit.base.URL = IF unit.in.override.URL = EmptyStr
                           THEN unit.in.base.URL ELSE unit.in.override.URL
        /\ unit.base.DefaultSeverity =
               IF unit.in.override.DefaultSeverity = EmptyStr
               THEN unit.in.base.DefaultSeverity
               ELSE unit.in.override.DefaultSeverity
        /\ IsUnion(Contents(heap, unit.base.ExtraLabels),
                   LitMap(unit.in.base.ExtraLabels),
                   LitMap(unit.in.override.ExtraLabels))
        /\ IsUnion(Contents(heap, unit.base.ExtraAnnotations),
                   LitMap(unit.in.base.ExtraAnnotations),
                   LitMap(unit.in.override.ExtraAnnotations))
        /\ unit.override.URL = unit.in.override.URL
        /\ unit.override.Timeout = unit.in.override.Timeout
        /\ unit.override.DefaultSeverity = unit.in.override.DefaultSeverity
        /\ unit.override.ClientConfig = unit.in.override.ClientConfig
        /\ (unit.override.ExtraLabels = Nil) <=> (unit.in.override.ExtraLabels = {})
        /\ (unit.override.ExtraAnnotations = Nil)
               <=> (unit.in.override.ExtraAnnotations = {})
        /\ Contents(heap, unit.override.ExtraLabels)
               = LitMap(unit.in.override.ExtraLabels)
        /\ Contents(heap, unit.override.ExtraAnnotations)
               = LitMap(unit.in.override.ExtraAnnotations)

\* a merge of two configs built apart whose label maps collide on "team":
\* the override's value won, the base's other key stayed, the override's new
\* key was added, and the base's URL stayed as the override set none
C4_Witness ==
    /\ MergeDone
    /\ ~unit.in.copied
    /\ unit.in.override.URL = EmptyStr /\ unit.base.URL = AM
    /\ unit.in.base.ExtraLabels = {Map2("team", "platform", "env", "dev")}
    /\ Contents(heap, unit.base.ExtraLabels)
           = [k \in {"team", "env", "region"} |->
                 IF k = "team" THEN Str("payments")
                 ELSE IF k = "env" THEN Str("dev") ELSE Str("eu")]

---------------------------------------------------------------------------
(* C10 *)

\* C10 as stated: after B.Merge(O) the map B holds is not O's map object, and
\* the map objects B referenced before the merge (which sibling, copied from
\* B before the merge, still references) have not been written to.
C10_PrivateCopyAsStated ==
    MergeDone =>
        /\ unit.base.ExtraLabels # Nil
               => unit.base.ExtraLabels # unit.override.ExtraLabels
        /\ unit.base.ExtraAnnotations # Nil
               => unit.base.ExtraAnnotations # unit.override.ExtraAnnotations
        /\ Contents(heap, unit.sibling.ExtraLabels)
               = LitMap(unit.in.base.ExtraLabels)
        /\ Contents(heap, unit.sibling.ExtraAnnotations)
               = LitMap(unit.in.base.ExtraAnnotations)

\* after B.Merge(O), for one map field: B holds the object it held before
\* (before), written in place with the union; or, having held none, a new
\* object when O's map (other) is non-empty and still none when it is empty
MergesInPlace(before, after, other) ==
    /\ before # Nil => after = before
    /\ (before = Nil /\ MapLen(heap, other) > 0) =>
           /\ after # Nil
           /\ after # other
           /\ after \in DOMAIN heap
    /\ (before = Nil /\ MapLen(heap, other) = 0) => after = Nil
    /\ after = other => before = other

\* C10, amended: Merge makes no copy.  After B.Merge(O), B holds the map
\* object it held before the merge, or a newly made one when it held none and
\* O's map is non-empty; B holds O's map object only if it already held it
\* before the merge.  The union is written in place, so a Config copied from
\* the same base, which references the same object, observes the writes.
C10_MergeInPlace ==
    MergeDone =>
        /\ MergesInPlace(unit.sibling.ExtraLabels, unit.base.ExtraLabels,
                         unit.override.ExtraLabels)
        /\ MergesInPlace(unit.sibling.ExtraAnnotations, unit.base.ExtraAnnotations,
                         unit.override.ExtraAnnotations)
        /\ unit.sibling.ExtraLabels # Nil =>
               Contents(heap, unit.sibling.ExtraLabels)
                   = Contents(heap, unit.base.ExtraLabels)
        /\ unit.sibling.ExtraAnnotations # Nil =>
               Contents(heap, unit.sibling.ExtraAnnotations)
                   = Contents(heap, unit.base.ExtraAnnotations)

\* a merge into a base that held a label map and no annotation map: the
\* sibling sees the override's label in the shared object, and the base's
\* annotation map is a new object, not the override's
C10_Witness ==
    /\ MergeDone
    /\ ~unit.in.copied
    /\ unit.in.base.ExtraLabels = {Map1("team", "platform")}
    /\ unit.in.base.ExtraAnnotations = {}
    /\ unit.sibling.ExtraLabels = unit.base.ExtraLabels
    /\ Contents(heap, unit.sibling.ExtraLabels)["team"] = Str("payments")
    /\ unit.sibling.ExtraAnnotations = Nil
    /\ unit.base.ExtraAnnotations # Nil
    /\ unit.base.ExtraAnnotations # unit.override.ExtraAnnotations
    /\ Contents(heap, unit.base.ExtraAnnotations)
           = Contents(heap, unit.override.ExtraAnnotations)

---------------------------------------------------------------------------
(* C7 *)

BuildDone == unit.op = "buildAlert" /\ unit.pc = "done"

\* C7: a payload built with resolved=false has the zero EndsAt; one built
\* with resolved=true has a non-zero EndsAt, the same instant as its
\* StartsAt; StartsAt is set in both.
C7_EndsAt ==
    BuildDone =>
        /\ unit.payload.StartsAt # 0
        /\ ~unit.resolved => unit.payload.EndsAt = 0
        /\ unit.resolved =>
               /\ unit.payload.EndsAt # 0
               /\ unit.payload.EndsAt = unit.payload.StartsAt

\* a firing payload built at a later instant than the first: EndsAt is zero
C7_Witness ==
    /\ BuildDone
    /\ ~unit.resolved
    /\ unit.payload.StartsAt = 2
    /\ unit.payload.EndsAt = 0

---------------------------------------------------------------------------
(* C8 *)

SummaryHealthy == Str("Endpoint ") \o unit.ep.Name \o Str(" is now healthy")
SummaryDown == Str("Endpoint ") \o unit.ep.Name \o Str(" is down")

\* C8 as stated: for every ExtraAnnotations map the resolved payload's
\* summary is "Endpoint <Name> is now healthy", the firing payload's is
\* "Endpoint <Name> is down", and both have a description.
C8_SummaryAsStated ==
    BuildDone =>
        /\ "summary" \in DOMAIN unit.payload.Annotations
        /\ "description" \in DOMAIN unit.payload.Annotations
        /\ unit.payload.Annotations["summary"] =
               IF unit.resolved THEN SummaryHealthy ELSE SummaryDown

\* C8, amended: both payloads always have a summary and a description
\* annotation; the summary is "Endpoint <Name> is now healthy" (resolved) or
\* "Endpoint <Name> is down" (firing) whenever cfg.ExtraAnnotations has no
\* "summary" key, and is the ExtraAnnotations value when it has one.
C8_Summary ==
    BuildDone =>
        LET extra == Contents(heap, unit.cfg.ExtraAnnotations)
        IN  /\ "summary" \in DOMAIN unit.payload.Annotations
            /\ "description" \in DOMAIN unit.payload.Annotations
            /\ unit.payload.Annotations["summary"] =
                   IF "summary" \in DOMAIN extra THEN extra["summary"]
                   ELSE IF unit.resolved THEN SummaryHealthy ELSE SummaryDown

\* a resolved payload built with an ExtraAnnotations map that has a summary
C8_Witness ==
    /\ BuildDone
    /\ unit.resolved
    /\ "summary" \in DOMAIN Contents(heap, unit.cfg.ExtraAnnotations)
    /\ unit.payload.Annotations["summary"] = Str("see dashboard")
    /\ unit.payload.Annotations["description"] # EmptyStr

---------------------------------------------------------------------------
(* C9 *)

CoreLabelKeys == {"alertname", "instance", "job", "severity", "endpoint"}

\* the fixed value of a fixed label key
FixedLabelValue(k) ==
    IF k = "alertname" THEN Str("GatusEndpointDown")
    ELSE IF k = "instance" THEN unit.ep.URL
    ELSE IF k = "job" THEN Str("gatus")
    ELSE IF k = "severity" THEN unit.cfg.DefaultSeverity
    ELSE IF k = "endpoint" THEN unit.ep.Name
    ELSE unit.ep.Group

\* C9: the labels are the five fixed ones, plus group only if the endpoint
\* group is non-empty, overlaid with cfg.ExtraLabels: every ExtraLabels entry
\* is there with its value, every fixed key not in ExtraLabels has its fixed
\* value, the five core keys are always there and no other key is.
C9_Labels ==
    BuildDone =>
        LET extra == Contents(heap, unit.cfg.ExtraLabels)
            fixed == CoreLabelKeys
                     \cup (IF unit.ep.Group # EmptyStr THEN {"group"} ELSE {})
            got   == unit.payload.Labels
        IN  /\ DOMAIN got = fixed \cup DOMAIN extra
            /\ CoreLabelKeys \subseteq DOMAIN got
            /\ \A k \in DOMAIN extra : got[k] = extra[k]
            /\ \A k \in fixed \ DOMAIN extra : got[k] = FixedLabelValue(k)

\* a payload for an endpoint without a group, built with ExtraLabels that
\* overwrite severity and alertname: no group label, the extra values win
C9_Witness ==
    /\ BuildDone
    /\ unit.ep.Group = EmptyStr
    /\ unit.cfg.DefaultSeverity = Str("warning")
    /\ "group" \notin DOMAIN unit.payload.Labels
    /\ unit.payload.Labels["severity"] = Str("page")
    /\ unit.payload.Labels["alertname"] = Str("Custom")
    /\ unit.payload.Labels["job"] = Str("gatus")

---------------------------------------------------------------------------
(* C11 *)

\* C11: no step of any public operation of the provider (Validate,
\* ValidateOverrides, GetConfig, Send) changes the stored
\* DefaultConfig.Timeout or DefaultConfig.DefaultSeverity, so both hold their
\* construction values after any sequence of operations; Config.Validate
\* never fills its defaults into the stored DefaultConfig.
C11_StoredDefaultsKept ==
    [][/\ provider'.DefaultConfig.Timeout = provider.DefaultConfig.Timeout
       /\ provider'.DefaultConfig.DefaultSeverity
              = provider.DefaultConfig.DefaultSeverity]_vars

---------------------------------------------------------------------------
(* C12 *)

\* C12 as stated: when the HTTP call yielded a response, the body has been
\* both drained and closed by the time sendToAlertmanager returns, for a
\* status in [200,300) as for one outside it.
C12_DrainedAndClosedAsStated ==
    \A t \in DOMAIN threads :
        (threads[t].pc = "returned" /\ GotResponse(t)) =>
            /\ threads[t].resp.drained
            /\ threads[t].resp.closed

\* C12: when the HTTP call yielded a response, the body has been closed by
\* the time sendToAlertmanager returns, whatever the status; it has been
\* read by io.ReadAll exactly when the status is outside [200,300), and on a
\* status in [200,300) it is closed unread.  While io.ReadAll waits for the
\* body the call has not returned and the body is neither read nor closed.
\* Without a response there is no body and nothing is read or closed.
C12_ClosedOnEveryPath ==
    \A t \in DOMAIN threads :
        /\ (threads[t].pc = "returned" /\ GotResponse(t)) =>
               /\ threads[t].resp.closed
               /\ threads[t].resp.drained <=>
                      (threads[t].resp.status < 200 \/ threads[t].resp.status >= 300)
        /\ threads[t].pc = "read" =>
               /\ GotResponse(t)
               /\ ~threads[t].resp.closed /\ ~threads[t].resp.drained
        /\ ~GotResponse(t) => (~threads[t].resp.closed /\ ~threads[t].resp.drained)

\* a Send answered 200 has returned without error: the body is closed and
\* nothing of it was read
C12_Witness ==
    \E t \in DOMAIN threads :
        /\ threads[t].pc = "returned" /\ threads[t].op = "Send"
        /\ threads[t].attempts = 1
        /\ threads[t].resp.status = 200
        /\ threads[t].resp.body = EmptyStr
        /\ threads[t].resp.closed
        /\ ~threads[t].resp.drained
        /\ threads[t].err = ErrNone

===========================================================================
